---- MODULE Spec2Model ----
(***************************************************************************)
(* A model of src/src/EurekaClient.js: the registration / heartbeat        *)
(* lifecycle, the service-url ring, and the registry cache.                *)
(*                                                                         *)
(* The client is single-threaded JavaScript: every handler (a method call, *)
(* a timer firing, an HTTP response arriving, an endpoint lookup           *)
(* completing) runs to completion.  Each handler is written here as an     *)
(* operator from a state record to a state record, composed the way the    *)
(* code calls its methods, and each action installs the result of one      *)
(* handler.                                                                *)
(***************************************************************************)
EXTENDS Integers, Sequences, FiniteSets, Bags, TLC

VARIABLES
    config,             \* this.config, the part that never changes after construction
    serviceUrl,         \* this.config.eureka.serviceUrl (the ring; head = current)
    heartbeat,          \* TRUE iff this.heartbeat refers to an interval timer that is still set
    hbOrphans,          \* heartbeat interval timers still set that this.heartbeat no longer refers to
    reregisterTimeout,  \* <<t>> iff this.reregisterTimeout refers to a pending timeout t, else << >>
    retryOrphans,       \* pending re-register timeouts that this.reregisterTimeout no longer refers to
    registryFetch,      \* TRUE iff this.registryFetch refers to an interval timer that is still set
    waitTimer,          \* TRUE iff a waitForRegistryUpdate timeout (2000 ms) is pending
    lookups,            \* bag of operations waiting for lookupCurrentEurekaHost to call back
    requests,           \* bag of HTTP requests sent and not yet answered
    cache,              \* this.cache = [app |-> ..., vip |-> ...]
    phase,              \* where start() / stop() stand
    ev,                 \* the event the last handler handled
    fx,                 \* what the last handler did, in order (observable effects)
    token,              \* this.oAuth2Util.token
    failures,           \* transport errors so far of the registration start() began, while it is under way
    doneCalls           \* number of invocations of the callback start() passed to register()

vars == <<config, serviceUrl, heartbeat, hbOrphans, reregisterTimeout, retryOrphans,
          registryFetch, waitTimer, lookups, requests, cache, phase, ev, fx, failures,
          doneCalls, token>>

----------------------------------------------------------------------------
(* Bounds of the model.                                                    *)

MaxUrls == 3        \* rings of 1 .. MaxUrls service urls
MaxPending == 2     \* heartbeat / registration operations pending at once
MaxFail == 4        \* transport errors of the registration that start() began
MaxOrphans == 1     \* orphaned heartbeat timers
MaxFetching == 1    \* registry fetches under way at once
MaxInst == 2        \* instances listed under one application

----------------------------------------------------------------------------
(* Values.                                                                 *)

NoResponse == 0     \* the request callback's `error` is set, there is no response

RegisterStatuses == {NoResponse, 204, 500}
RenewStatuses == {NoResponse, 200, 404, 500}
FetchStatuses == {NoResponse, 200, 500}
DeregisterStatuses == {NoResponse, 200, 500}

NoUrl == 0
EmptyMap == [k \in {} |-> << >>]

EmptyCache == [app |-> EmptyMap, vip |-> EmptyMap]

\* The state as one record, and its installation as the next state.
S ==
    [config |-> config, serviceUrl |-> serviceUrl, heartbeat |-> heartbeat,
     hbOrphans |-> hbOrphans, reregisterTimeout |-> reregisterTimeout,
     retryOrphans |-> retryOrphans, registryFetch |-> registryFetch,
     waitTimer |-> waitTimer, lookups |-> lookups, requests |-> requests,
     cache |-> cache, phase |-> phase, ev |-> ev, fx |-> fx, failures |-> failures,
     doneCalls |-> doneCalls, token |-> token]

Install(t) ==
    /\ config' = t.config
    /\ serviceUrl' = t.serviceUrl
    /\ heartbeat' = t.heartbeat
    /\ hbOrphans' = t.hbOrphans
    /\ reregisterTimeout' = t.reregisterTimeout
    /\ retryOrphans' = t.retryOrphans
    /\ registryFetch' = t.registryFetch
    /\ waitTimer' = t.waitTimer
    /\ lookups' = t.lookups
    /\ requests' = t.requests
    /\ cache' = t.cache
    /\ phase' = t.phase
    /\ ev' = t.ev
    /\ fx' = t.fx
    /\ failures' = t.failures
    /\ doneCalls' = t.doneCalls
    /\ token' = t.token

\* A handler starts: the event it handles, and an empty list of effects.
Begin(s, e) == [s EXCEPT !.ev = e, !.fx = << >>]

Did(s, e, a) == [s EXCEPT !.fx = Append(@, [e |-> e, a |-> a])]

Count(log, e) == Cardinality({i \in DOMAIN log : log[i].e = e})

NoBody == [none |-> TRUE]

Event(op, status, req) == [op |-> op, status |-> status, req |-> req, body |-> NoBody]

\* An operation that asks for the endpoint.  While it waits, `stage` is what
\* it waits for; `url` and `host` are what the lookup hands over and `auth` is
\* the Authorization header of the request.
Op(kind, cb, why, url0) ==
    [kind |-> kind, cb |-> cb, url |-> NoUrl, why |-> why, url0 |-> url0,
     stage |-> "token", host |-> "configured", auth |-> "none"]

NoOp == [kind |-> "none", cb |-> "none"]

One(x) == SetToBag({x})

----------------------------------------------------------------------------
(* The service-url ring.                                                   *)

currentServiceUrl(s) == s.serviceUrl[1]

\* Mutant of rotateCurrentServiceUrl: the last url moves to the head.
rotateCurrentServiceUrl_TailToHead(s) ==
    Did([s EXCEPT !.serviceUrl = <<@[Len(@)]>> \o SubSeq(@, 1, Len(@) - 1)], "rotate", "")

\* Mutant of rotateCurrentServiceUrl: the first two urls change places.
rotateCurrentServiceUrl_Swap(s) ==
    Did([s EXCEPT !.serviceUrl = IF Len(@) < 2 THEN @
                                 ELSE <<@[2], @[1]>> \o SubSeq(@, 3, Len(@))],
        "rotate", "")

rotateCurrentServiceUrl(s) ==
    Did([s EXCEPT !.serviceUrl = Append(Tail(@), Head(@))], "rotate", "")

RECURSIVE Rotated(_, _)
Rotated(ring, k) ==
    IF k = 0 THEN ring ELSE Rotated(Append(Tail(ring), Head(ring)), k - 1)

----------------------------------------------------------------------------
(* Heartbeat timer.                                                        *)

\* setInterval makes a new timer and this.heartbeat is overwritten: a timer it
\* referred to stays set, unreferenced.
startHeartbeats(s) ==
    Did([s EXCEPT !.heartbeat = TRUE,
                  !.hbOrphans = IF s.heartbeat THEN @ + 1 ELSE @],
        "startHeartbeats", "")

stopHeartbeats(s) ==
    Did([s EXCEPT !.heartbeat = FALSE], "stopHeartbeats", "")

emit(s, signal) == Did(s, "emit", signal)

----------------------------------------------------------------------------
(* Requests and the endpoint lookup.                                       *)

\* A request in flight: its callback reads neither the url it was sent to nor
\* who called, so a request is its kind and the callback it will call.
Request(op) == [kind |-> op.kind, cb |-> op.cb]

\* request.post / put / get / del to the url the lookup handed over.
sendRequest(s, op, url) ==
    Did([s EXCEPT !.requests = @ (+) One(Request(op))], "send", [op EXCEPT !.url = url])

\* The token as lookupCurrentEurekaHost hands it over: null without an auth
\* collaborator, otherwise this.token of OAuth2Util, which is {} until a token
\* has been acquired.
NullToken == "null"

EmptyToken == "{}"

Tokens == {"t1", "t2"}

TokenError == "error"

\* 'Bearer ' + token.access_token
Bearer(tok) ==
    CASE tok = "t1" -> "Bearer t1"
      [] tok = "t2" -> "Bearer t2"
      [] OTHER -> "Bearer undefined"

\* Mutant of setAuthorizationInHeader: no header for the empty token object.
setAuthorizationInHeader_NoneWhenEmpty(tok) ==
    IF tok \in {NullToken, EmptyToken} THEN "none" ELSE Bearer(tok)

\* The header is left out when `!token`; an object, also {}, is not falsy.
setAuthorizationInHeader(tok) ==
    IF tok = NullToken THEN "none" ELSE Bearer(tok)

\* The callback register, renew, fetchRegistry and deregister pass to
\* lookupCurrentEurekaHost: its `err` is always null, so the request is sent.
handOver(s, op, url, host, tok) ==
    sendRequest(s, [op EXCEPT !.host = host, !.auth = setAuthorizationInHeader(tok)], url)

waitFor(s, op, stage) ==
    LET o == [op EXCEPT !.stage = stage]
    IN  Did([s EXCEPT !.lookups = @ (+) One(o)], "lookup", o)

\* Mutant of dnsCallback: an error of the DNS lookup goes to the caller, and
\* nothing is sent.
dnsCallback_ErrorToCaller(s, op, result) ==
    IF result = "error"
    THEN Did(s, "callback", [cb |-> op.cb, err |-> "dns"])
    ELSE IF s.config.oAuth2Enabled
    THEN waitFor(s, [op EXCEPT !.url = currentServiceUrl(s), !.host = "resolved"], "token")
    ELSE handOver(s, op, currentServiceUrl(s), "resolved", NullToken)

\* The callback lookupCurrentEurekaHost passes to locateEurekaHostUsingDns.
\* It does not read `err`.  parsed.host = resolvedHost, which is undefined
\* after an error, and url.format(parsed) then puts the url together from
\* parsed.hostname and parsed.port: the url as configured.
dnsCallback(s, op, result) ==
    LET host == IF result = "error" THEN "configured" ELSE "resolved"
    IN  IF s.config.oAuth2Enabled
        THEN waitFor(s, [op EXCEPT !.url = currentServiceUrl(s), !.host = host], "token")
        ELSE handOver(s, op, currentServiceUrl(s), host, NullToken)

\* locateEurekaHostUsingDns up to the first dns.resolveTxt.
locateEurekaHostUsingDns(s, op) ==
    IF ~s.config.ec2Region
    THEN dnsCallback(s, op, "error")
    ELSE waitFor(s, op, "dns1")

\* The callbacks of the two dns.resolveTxt.  The second, after an error, calls
\* back with the error and goes on to spread `results`, which is undefined.
dnsDone(s, op, result) ==
    LET s1 == [s EXCEPT !.lookups = @ (-) One(op)]
    IN  IF op.stage = "dns1"
        THEN IF result = "error" THEN dnsCallback(s1, op, "error")
             ELSE waitFor(s1, op, "dns2")
        ELSE IF result = "error"
             THEN Did(dnsCallback(s1, op, "error"), "throw", "TypeError")
             ELSE dnsCallback(s1, op, "ok")

\* lookupCurrentEurekaHost: with an auth collaborator the callback runs after
\* the token request, otherwise at once; without DNS it reads
\* currentServiceUrl when it runs.
lookupCurrentEurekaHost(s, op) ==
    IF s.config.useDns
    THEN locateEurekaHostUsingDns(s, op)
    ELSE IF s.config.oAuth2Enabled
    THEN waitFor(s, op, "token")
    ELSE handOver(s, op, currentServiceUrl(s), "configured", NullToken)

\* OAuth2Util.getTokenForClientCredentials: this.token is assigned when the
\* token request succeeds, and handed over either way.
getTokenForClientCredentials(s, outcome) ==
    IF outcome = TokenError THEN s ELSE [s EXCEPT !.token = outcome]

\* The callback lookupCurrentEurekaHost passes to getTokenForClientCredentials.
lookupDone(s, op, outcome) ==
    LET s1 == getTokenForClientCredentials([s EXCEPT !.lookups = @ (-) One(op)], outcome)
    IN  handOver(s1, op,
                 IF s.config.useDns THEN op.url ELSE currentServiceUrl(s1),
                 op.host, s1.token)

----------------------------------------------------------------------------
(* The registry payload, as JSON.parse hands it to transformRegistry.      *)
(* A field that JSON gives either as one record or as an array is          *)
(* [isArray, items]: a record is isArray = FALSE with one item.            *)

Vips == {"v1", "v2"}

InstanceStatuses == {"UP", "DOWN"}

AppNames == {"foo", "BAR"}

\* String.prototype.toUpperCase on the names and keys of the model.
toUpperCase(str) ==
    CASE str = "foo" -> "FOO"
      [] str = "bar" -> "BAR"
      [] OTHER -> str

InstancesOf(name, k) ==
    {[app |-> name, id |-> k, vipAddress |-> v, status |-> st] :
        v \in Vips, st \in InstanceStatuses}

InstanceArrays(name) ==
    UNION {{q \in [1 .. n -> UNION {InstancesOf(name, k) : k \in 1 .. n}] :
                \A k \in 1 .. n : q[k] \in InstancesOf(name, k)} : n \in 1 .. MaxInst}

InstanceFields(name) ==
    {[isArray |-> FALSE, items |-> <<i>>] : i \in InstancesOf(name, 1)}
        \cup {[isArray |-> TRUE, items |-> q] : q \in InstanceArrays(name)}

Applications ==
    UNION {{[name |-> name, instance |-> f] : f \in InstanceFields(name)} : name \in AppNames}

\* Arrays of applications: the registry lists an application once.
ApplicationArrays ==
    UNION {{q \in [1 .. n -> Applications] :
                \A i, j \in 1 .. n : i # j => toUpperCase(q[i].name) # toUpperCase(q[j].name)} :
           n \in 0 .. Cardinality(AppNames)}

NullRegistry == [null |-> TRUE, present |-> FALSE, isArray |-> FALSE, items |-> << >>]

NoApplication == [null |-> FALSE, present |-> FALSE, isArray |-> FALSE, items |-> << >>]

Registries ==
    {NullRegistry, NoApplication}
        \cup {[null |-> FALSE, present |-> TRUE, isArray |-> FALSE, items |-> <<a>>] :
                a \in Applications}
        \cup {[null |-> FALSE, present |-> TRUE, isArray |-> TRUE, items |-> q] :
                q \in ApplicationArrays}

----------------------------------------------------------------------------
(* The registry cache.                                                     *)

Put(map, key, value) ==
    [k \in DOMAIN map \cup {key} |-> IF k = key THEN value ELSE map[k]]

\* Mutant of validateInstance: every instance passes.
validateInstance_Always(cfg, instance) == instance.status \in InstanceStatuses

validateInstance(cfg, instance) ==
    ~cfg.filterUpInstances \/ instance.status = "UP"

\* Mutant of transformApp: a record is indexed as the array of that record.
transformApp_Normalised(cfg, app, c) ==
    LET instances == SelectSeq(app.instance.items, LAMBDA i : validateInstance(cfg, i))
        c1 == [c EXCEPT !.app = Put(@, toUpperCase(app.name), instances)]
    IN  [c1 EXCEPT !.vip = Put(@, app.instance.items[1].vipAddress, instances)]

\* `app.instance.length` is a number for an array and undefined for a record.
transformApp(cfg, app, c) ==
    IF app.instance.isArray /\ Len(app.instance.items) # 0
    THEN LET instances == SelectSeq(app.instance.items, LAMBDA i : validateInstance(cfg, i))
             c1 == [c EXCEPT !.app = Put(@, toUpperCase(app.name), instances)]
         IN  [c1 EXCEPT !.vip = Put(@, app.instance.items[1].vipAddress, instances)]
    ELSE IF validateInstance(cfg, app.instance.items[1])
    THEN LET instances == <<app.instance.items[1]>>
             c1 == [c EXCEPT !.vip = Put(@, app.instance.items[1].vipAddress, instances)]
         IN  [c1 EXCEPT !.app = Put(@, toUpperCase(app.name), instances)]
    ELSE c

RECURSIVE forEachApp(_, _, _)
forEachApp(cfg, apps, c) ==
    IF apps = << >> THEN c
    ELSE forEachApp(cfg, Tail(apps), transformApp(cfg, Head(apps), c))

\* Mutant of transformRegistry: the applications are put into the cache there
\* is.
transformRegistry_IntoCache(s, registry) ==
    IF registry.null THEN s
    ELSE IF ~registry.present THEN s
    ELSE IF registry.isArray
    THEN [s EXCEPT !.cache = forEachApp(s.config, registry.items, s.cache)]
    ELSE [s EXCEPT !.cache = transformApp(s.config, registry.items[1], s.cache)]

transformRegistry(s, registry) ==
    IF registry.null THEN s
    ELSE IF ~registry.present THEN s
    ELSE IF registry.isArray
    THEN [s EXCEPT !.cache = forEachApp(s.config, registry.items, EmptyCache)]
    ELSE [s EXCEPT !.cache = transformApp(s.config, registry.items[1], EmptyCache)]

\* The lookups: [thrown, value].  `!key` holds of the empty string and of a
\* key that was not passed (undefined).
MissingKey == "<undefined>"

\* Mutant of getInstancesByAppId: the key is looked up as given.
getInstancesByAppId_AsGiven(s, appId) ==
    IF appId \in {"", MissingKey} THEN [thrown |-> TRUE, value |-> << >>]
    ELSE [thrown |-> FALSE,
          value |-> IF appId \in DOMAIN s.cache.app THEN s.cache.app[appId] ELSE << >>]

getInstancesByAppId(s, appId) ==
    IF appId \in {"", MissingKey} THEN [thrown |-> TRUE, value |-> << >>]
    ELSE [thrown |-> FALSE,
          value |-> IF toUpperCase(appId) \in DOMAIN s.cache.app
                    THEN s.cache.app[toUpperCase(appId)] ELSE << >>]

getInstancesByVipAddress(s, vipAddress) ==
    IF vipAddress \in {"", MissingKey} THEN [thrown |-> TRUE, value |-> << >>]
    ELSE [thrown |-> FALSE,
          value |-> IF vipAddress \in DOMAIN s.cache.vip
                    THEN s.cache.vip[vipAddress] ELSE << >>]

fetchRegistry(s, cb) == lookupCurrentEurekaHost(s, Op("fetch", cb, "", NoUrl))

----------------------------------------------------------------------------
(* Callbacks.  A callback is named by where the code made it:              *)
(*   "done"      the series callback start() passes to register()          *)
(*   "noop"      the default callback of the register() that renew() calls *)
(*   "wait"      the callback of waitForRegistryUpdate's fetchRegistry     *)
(*   "fetchDone" the series callback start() passes to fetchRegistry()     *)
(*   "poll"      the callback of the registry-fetch interval (it logs)     *)
(*   "stop"      the callback the application passed to stop()             *)
(*   "user"      a callback the application passed to fetchRegistry()      *)
(* and its argument is "null" or the kind of error.                        *)

\* The final callback of start()'s series.
seriesEnd(s, err) ==
    Did(emit([s EXCEPT !.phase.start = "started"], "started"),
        "callback", [cb |-> "start", err |-> err])

startRegistryFetches(s) ==
    Did([s EXCEPT !.registryFetch = TRUE], "setInterval", "registryFetch")

\* The third task of start()'s series.
startFetching(s) ==
    IF s.config.fetchRegistry
    THEN IF s.config.waitForRegistry
         THEN fetchRegistry(startRegistryFetches(s), "wait")
         ELSE fetchRegistry(startRegistryFetches(s), "fetchDone")
    ELSE seriesEnd(s, "null")

\* The callback waitForRegistryUpdate passes to fetchRegistry.
waitForRegistryUpdate(s) ==
    IF Len(getInstancesByVipAddress(s, s.config.vipAddress).value) = 0
    THEN Did([s EXCEPT !.waitTimer = TRUE], "setTimeout", "wait")
    ELSE seriesEnd(s, "null")

invoke(s, cb, err) ==
    LET s0 == Did(s, "callback", [cb |-> cb, err |-> err])
    IN  CASE cb = "done" ->
                 IF err # "null"
                 THEN seriesEnd([s0 EXCEPT !.doneCalls = @ + 1], err)
                 ELSE startFetching([s0 EXCEPT !.doneCalls = @ + 1])
          [] cb = "wait" -> waitForRegistryUpdate(s0)
          [] cb = "fetchDone" -> seriesEnd(s0, err)
          [] OTHER -> s0

----------------------------------------------------------------------------
(* register, renew, deregister, start, stop.                               *)

\* register(callback).  `why` (who called) and, for a call from renew(), `url0`
\* (the current service url at the call) are kept with the operation for the
\* properties; the code does not read them.
register(s, cb, why) ==
    lookupCurrentEurekaHost(s,
        Op("register", cb, why,
           IF why \in {"hb404", "hbfail"} THEN currentServiceUrl(s) ELSE NoUrl))

\* this.reregisterTimeout = setTimeout(() => this.register(callback), backoff)
setReregisterTimeout(s, cb) ==
    Did([s EXCEPT !.retryOrphans = IF s.reregisterTimeout # << >>
                                   THEN @ (+) One(s.reregisterTimeout[1]) ELSE @,
                  !.reregisterTimeout = <<cb>>],
        "setTimeout", cb)

\* Mutants of registerResponse: the transport error does not rotate the ring;
\* a rejection is retried like a transport error; an accepted registration
\* does not start the heartbeat timer.
registerResponse_NoRotate(s, req, status) ==
    IF status = 204
    THEN invoke(startHeartbeats(emit(s, "registered")), req.cb, "null")
    ELSE IF status = NoResponse
    THEN setReregisterTimeout(s, req.cb)
    ELSE invoke(s, req.cb, "status")

registerResponse_RetryRejected(s, req, status) ==
    IF status = 204
    THEN invoke(startHeartbeats(emit(s, "registered")), req.cb, "null")
    ELSE setReregisterTimeout(rotateCurrentServiceUrl(s), req.cb)

registerResponse_NoHeartbeats(s, req, status) ==
    IF status = 204
    THEN invoke(emit(s, "registered"), req.cb, "null")
    ELSE IF status = NoResponse
    THEN setReregisterTimeout(rotateCurrentServiceUrl(s), req.cb)
    ELSE invoke(s, req.cb, "status")

\* Another: a transport error is retried and also passed to the callback.
registerResponse_RetryAndCallBack(s, req, status) ==
    IF status = 204
    THEN invoke(startHeartbeats(emit(s, "registered")), req.cb, "null")
    ELSE IF status = NoResponse
    THEN invoke(setReregisterTimeout(rotateCurrentServiceUrl(s), req.cb), req.cb, "transport")
    ELSE invoke(s, req.cb, "status")

registerResponse_NoRetry(s, req, status) ==
    IF status = 204
    THEN invoke(startHeartbeats(emit(s, "registered")), req.cb, "null")
    ELSE IF status = NoResponse
    THEN rotateCurrentServiceUrl(s)
    ELSE invoke(s, req.cb, "status")

\* The callback of request.post in register().
registerResponse(s, req, status) ==
    IF status = 204
    THEN invoke(startHeartbeats(emit(s, "registered")), req.cb, "null")
    ELSE IF status = NoResponse
    THEN setReregisterTimeout(rotateCurrentServiceUrl(s), req.cb)
    ELSE invoke(s, req.cb, "status")

renew(s) == lookupCurrentEurekaHost(s, Op("renew", "none", "tick", NoUrl))

\* Mutants of renewResponse: a 404 rotates the ring like any other failure; a
\* failure other than 404 leaves the ring alone like a 404.
renewResponse_RotateOn404(s, req, status) ==
    IF status = 200
    THEN emit(s, "heartbeat")
    ELSE register(rotateCurrentServiceUrl(stopHeartbeats(s)), "noop",
                  IF status = 404 THEN "hb404" ELSE "hbfail")

renewResponse_NeverRotate(s, req, status) ==
    IF status = 200
    THEN emit(s, "heartbeat")
    ELSE register(stopHeartbeats(s), "noop", IF status = 404 THEN "hb404" ELSE "hbfail")

\* The callback of request.put in renew().
renewResponse(s, req, status) ==
    IF status = 200
    THEN emit(s, "heartbeat")
    ELSE IF status = 404
    THEN register(stopHeartbeats(s), "noop", "hb404")
    ELSE register(rotateCurrentServiceUrl(stopHeartbeats(s)), "noop", "hbfail")

deregister(s, cb) == lookupCurrentEurekaHost(s, Op("deregister", cb, "", NoUrl))

\* Mutant of deregisterResponse: a failure rotates the ring.
deregisterResponse_RotateOnError(s, req, status) ==
    IF status = 200
    THEN invoke(emit(s, "deregistered"), req.cb, "null")
    ELSE invoke(rotateCurrentServiceUrl(s), req.cb,
                IF status = NoResponse THEN "transport" ELSE "status")

\* The callback of request.del in deregister().
deregisterResponse(s, req, status) ==
    IF status = 200
    THEN invoke(emit(s, "deregistered"), req.cb, "null")
    ELSE IF status = NoResponse
    THEN invoke(s, req.cb, "transport")
    ELSE invoke(s, req.cb, "status")

\* Mutant of fetchResponse: a failed fetch empties the cache.
fetchResponse_ClearsOnFailure(s, req, status, registry) ==
    IF status = 200
    THEN invoke(emit(transformRegistry(s, registry), "registryUpdated"), req.cb, "null")
    ELSE invoke([s EXCEPT !.cache = EmptyCache], req.cb,
                IF status = NoResponse THEN "transport" ELSE "status")

\* The callback of request.get in fetchRegistry().
fetchResponse(s, req, status, registry) ==
    IF status = 200
    THEN invoke(emit(transformRegistry(s, registry), "registryUpdated"), req.cb, "null")
    ELSE IF status = NoResponse
    THEN invoke(s, req.cb, "transport")
    ELSE invoke(s, req.cb, "status")

\* start(): no metadata client (the data center is not Amazon), so the first
\* task of the series calls done() at once.
start(s) == register([s EXCEPT !.phase.start = "registering"], "done", "start")

clearRegistryFetch(s) ==
    Did([s EXCEPT !.registryFetch = FALSE], "clearInterval", "registryFetch")

clearReregisterTimeout(s) ==
    Did([s EXCEPT !.reregisterTimeout = << >>], "clearTimeout", "reregisterTimeout")

stop(s) ==
    deregister(stopHeartbeats(clearReregisterTimeout(clearRegistryFetch(
        [s EXCEPT !.phase.stopped = TRUE]))), "stop")

----------------------------------------------------------------------------
(* Initial states: the client as its constructor leaves it.                *)

Ring(n) == [i \in 1 .. n |-> i]

Configs(sizes, oauth, filter, fetch, wait) ==
    {[urls |-> Ring(n), oAuth2Enabled |-> o, filterUpInstances |-> f,
      fetchRegistry |-> r, waitForRegistry |-> w, vipAddress |-> "v1",
      useDns |-> FALSE, ec2Region |-> FALSE] :
        n \in sizes, o \in oauth, f \in filter, r \in fetch, w \in wait}

InitWith(cfgs) ==
    /\ config \in cfgs
    /\ serviceUrl = config.urls
    /\ heartbeat = FALSE
    /\ hbOrphans = 0
    /\ reregisterTimeout = << >>
    /\ retryOrphans = EmptyBag
    /\ registryFetch = FALSE
    /\ waitTimer = FALSE
    /\ lookups = EmptyBag
    /\ requests = EmptyBag
    /\ cache = EmptyCache
    /\ phase = [start |-> "idle", stopped |-> FALSE]
    /\ ev = Event("new", NoResponse, NoOp)
    /\ fx = << >>
    /\ failures = 0
    /\ doneCalls = 0
    /\ token = EmptyToken

----------------------------------------------------------------------------
(* Actions: one per handler.                                               *)

OfKind(bag, kinds) == {op \in BagToSet(bag) : op.kind \in kinds}

Copies(bag, kinds) ==
    BagCardinality([op \in OfKind(bag, kinds) |-> bag[op]])

\* Registrations and heartbeats under way: waiting for the lookup, sent, or
\* waiting for the re-register timeout.
Pending ==
    Copies(lookups, {"register", "renew"}) + Copies(requests, {"register", "renew"})
        + Len(reregisterTimeout) + BagCardinality(retryOrphans)

\* The application calls start().
Start ==
    /\ phase.start = "idle"
    /\ Install(start(Begin(S, Event("start", NoResponse, NoOp))))

\* A heartbeat interval timer fires.
HeartbeatTick ==
    /\ heartbeat \/ hbOrphans > 0
    /\ Pending < MaxPending
    /\ Install(renew(Begin(S, Event("tick", NoResponse, NoOp))))

\* The auth collaborator calls back, with a token or an error.
LookupDoneWith(outcomes) ==
    \E op \in {o \in BagToSet(lookups) : o.stage = "token"}, outcome \in outcomes :
        Install(lookupDone(
            Begin(S, [Event("lookupDone", NoResponse, Request(op))
                          EXCEPT !.body = [outcome |-> outcome]]),
            op, outcome))

\* The outcome of the token request changes the Authorization header and
\* nothing else: where the header is not looked at, one outcome stands for all.
LookupDone == LookupDoneWith({TokenError})

Answered(s, req) == [s EXCEPT !.requests = @ (-) One(req)]

\* The count is kept while that registration is under way.
Counted(s, req, status) ==
    IF req.cb # "done" THEN s
    ELSE IF status = NoResponse THEN [s EXCEPT !.failures = @ + 1]
    ELSE [s EXCEPT !.failures = 0]

RegisterResponseWith(statuses) ==
    \E req \in OfKind(requests, {"register"}), status \in statuses :
        /\ status = NoResponse /\ req.cb = "done" => failures < MaxFail
        /\ status = 204 /\ heartbeat => hbOrphans < MaxOrphans
        /\ Install(registerResponse(
               Begin(Counted(Answered(S, req), req, status),
                     Event("registerResponse", status, req)), req, status))

\* The registry answers a registration, or the request fails.
RegisterResponse == RegisterResponseWith(RegisterStatuses)

\* The registry answers a registration.
RegisterAnswered == RegisterResponseWith(RegisterStatuses \ {NoResponse})

\* A re-register timeout fires: the one this.reregisterTimeout refers to, or an
\* earlier one that is still pending.
ReregisterTimeoutFires ==
    /\ reregisterTimeout # << >>
    /\ Install(register(Begin([S EXCEPT !.reregisterTimeout = << >>],
                              Event("retry", NoResponse, NoOp)),
                        reregisterTimeout[1], "retry"))

RetryFire ==
    \/ ReregisterTimeoutFires
    \/ \E cb \in BagToSet(retryOrphans) :
           Install(register(Begin([S EXCEPT !.retryOrphans = @ (-) One(cb)],
                                  Event("retry", NoResponse, NoOp)),
                            cb, "retry"))

\* The registry answers a heartbeat, or the request fails.
RenewResponse ==
    \E req \in OfKind(requests, {"renew"}), status \in RenewStatuses :
        Install(renewResponse(
            Begin(Answered(S, req), Event("renewResponse", status, req)), req, status))

\* The application calls stop().
Stop ==
    /\ phase.start # "idle"
    /\ ~phase.stopped
    /\ Install(stop(Begin(S, Event("stop", NoResponse, NoOp))))

\* The registry answers the deregistration, or the request fails.
DeregisterResponse ==
    \E req \in OfKind(requests, {"deregister"}), status \in DeregisterStatuses :
        Install(deregisterResponse(
            Begin(Answered(S, req), Event("deregisterResponse", status, req)), req, status))

Init == InitWith(Configs(1 .. MaxUrls, BOOLEAN, {FALSE}, {FALSE}, {FALSE}))

Next ==
    \/ Start
    \/ HeartbeatTick
    \/ LookupDone
    \/ RegisterResponse
    \/ RetryFire
    \/ RenewResponse
    \/ Stop
    \/ DeregisterResponse

Spec == Init /\ [][Next]_vars

\* The client while stop() is not called, where what is pending happens: the
\* token request calls back, a timeout that is set fires, and the registry
\* does not leave every registration request unanswered.
NextLive ==
    \/ Start
    \/ HeartbeatTick
    \/ LookupDone
    \/ RegisterResponse
    \/ RetryFire
    \/ RenewResponse

\* Rings of one and of two URLs: a rotation either keeps the head or changes it.
InitLive == InitWith(Configs({1, 2}, BOOLEAN, {FALSE}, {FALSE}, {FALSE}))

SpecLive ==
    /\ InitLive
    /\ [][NextLive]_vars
    /\ WF_vars(LookupDone)
    /\ WF_vars(RetryFire)
    /\ SF_vars(RegisterAnswered)

----------------------------------------------------------------------------
(* The registry cache on its own: the application calls fetchRegistry().   *)

\* The application calls fetchRegistry(callback).
FetchRegistry ==
    /\ Copies(lookups, {"fetch"}) + Copies(requests, {"fetch"}) < MaxFetching
    /\ Install(fetchRegistry(Begin(S, Event("fetchRegistry", NoResponse, NoOp)), "user"))

Inst(name, k, v, st) == [app |-> name, id |-> k, vipAddress |-> v, status |-> st]

Record(x) == [isArray |-> FALSE, items |-> <<x>>]

Array(q) == [isArray |-> TRUE, items |-> q]

Body(field) ==
    [null |-> FALSE, present |-> TRUE, isArray |-> field.isArray, items |-> field.items]

\* A few bodies, of every shape.
SmallRegistries ==
    {NullRegistry, NoApplication, Body(Array(<< >>)),
     Body(Record([name |-> "foo", instance |-> Record(Inst("foo", 1, "v1", "UP"))])),
     Body(Array(<<[name |-> "BAR",
                   instance |-> Array(<<Inst("BAR", 1, "v2", "UP"),
                                        Inst("BAR", 2, "v2", "DOWN")>>)]>>))}

CacheOf(cfg, registry) ==
    transformRegistry([config |-> cfg, cache |-> EmptyCache], registry).cache

\* The bodies a fetch is answered with.  Every body follows a cache that is
\* empty or was built from one of the few bodies, and one of the few bodies
\* follows every cache.
BodiesAfter(cfg, c) ==
    IF c \in {CacheOf(cfg, r) : r \in SmallRegistries}
    THEN Registries
    ELSE SmallRegistries

\* The registry answers a fetch with a body, or the request fails.
FetchResponseOf(bodies) ==
    \E req \in OfKind(requests, {"fetch"}), status \in FetchStatuses :
        \E registry \in IF status = 200 THEN bodies ELSE {NullRegistry} :
            Install(fetchResponse(
                Begin(Answered(S, req),
                      [Event("fetchResponse", status, req) EXCEPT !.body = registry]),
                req, status, registry))

FetchResponse == FetchResponseOf(BodiesAfter(config, cache))

FetchResponseSmall == FetchResponseOf(SmallRegistries)

InitCache == InitWith(Configs({MaxUrls}, {FALSE}, BOOLEAN, {FALSE}, {FALSE}))

NextCache == FetchRegistry \/ FetchResponse

SpecCache == InitCache /\ [][NextCache]_vars

----------------------------------------------------------------------------
(* The endpoint lookup with DNS discovery and the auth collaborator: the    *)
(* application starts one operation at a time.                              *)

HostConfigs ==
    {[c EXCEPT !.useDns = d, !.ec2Region = r] :
        c \in Configs(1 .. MaxUrls, BOOLEAN, {FALSE}, {FALSE}, {FALSE}),
        d \in BOOLEAN, r \in BOOLEAN}

InitHost == InitWith(HostConfigs)

Quiet == lookups = EmptyBag /\ requests = EmptyBag

\* A dns.resolveTxt calls back, with records or an error.
DnsDone ==
    \E op \in {o \in BagToSet(lookups) : o.stage \in {"dns1", "dns2"}},
       result \in {"ok", "error"} :
        Install(dnsDone(
            Begin(S, [Event("dnsDone", NoResponse, Request(op))
                          EXCEPT !.body = [outcome |-> result, stage |-> op.stage]]),
            op, result))

\* The auth collaborator calls back with a token, the same or another, or an
\* error.
TokenDone == LookupDoneWith(Tokens \cup {TokenError})

NextHost ==
    \/ Quiet /\ Start
    \/ Quiet /\ HeartbeatTick
    \/ Quiet /\ FetchRegistry
    \/ Quiet /\ Stop
    \/ DnsDone
    \/ TokenDone
    \/ RegisterResponse
    \/ ReregisterTimeoutFires
    \/ RenewResponse
    \/ FetchResponseSmall
    \/ DeregisterResponse

SpecHost == InitHost /\ [][NextHost]_vars

\* The application calls stop() at any moment after start(), also while the
\* registration is under way; a ring of two urls.
InitStop == InitWith({c \in HostConfigs : Len(c.urls) = 2})

NextStop ==
    \/ Start
    \/ Stop
    \/ DnsDone
    \/ TokenDone
    \/ RegisterResponse
    \/ ReregisterTimeoutFires
    \/ DeregisterResponse

SpecStop == InitStop /\ [][NextStop]_vars

----------------------------------------------------------------------------
(* start() with fetchRegistry and waitForRegistry: the series waits until   *)
(* the cache holds an instance of the configured VIP address.               *)

\* The 2000 ms timeout of waitForRegistryUpdate fires.
WaitTimerFires ==
    /\ waitTimer
    /\ Install(fetchRegistry(Begin([S EXCEPT !.waitTimer = FALSE],
                                    Event("waitTimer", NoResponse, NoOp)), "wait"))

\* The registry-fetch interval fires, also while the fetch of the tick before
\* is under way, not while two of them are.
RegistryFetchTick ==
    /\ registryFetch
    /\ BagCardinality([req \in {r \in BagToSet(requests) : r.cb = "poll"} |-> requests[req]]) < 2
    /\ Install(fetchRegistry(Begin(S, Event("registryFetchTick", NoResponse, NoOp)), "poll"))

InitStart == InitWith(Configs({2}, {FALSE}, {FALSE}, {TRUE}, {TRUE}))

NextStart ==
    \/ Start
    \/ RegisterResponse
    \/ ReregisterTimeoutFires
    \/ Quiet /\ HeartbeatTick
    \/ RenewResponse
    \/ WaitTimerFires
    \/ RegistryFetchTick
    \/ FetchResponseSmall

SpecStart == InitStart /\ [][NextStart]_vars

----------------------------------------------------------------------------
(* The application looks instances up while fetches, two of which may       *)
(* overlap, fill the cache.                                                 *)

AppIds == {"", MissingKey, "foo", "FOO", "bar", "BAR"}

VipAddresses == {"", MissingKey, "v1", "v2", "v3"}

\* What a lookup gives back: the list it returns or the error it throws.
Returned(s, result) ==
    IF result.thrown THEN Did(s, "throw", "RangeError") ELSE Did(s, "return", result.value)

Lookup(op, key) == [Event(op, NoResponse, NoOp) EXCEPT !.body = [key |-> key]]

GetInstancesByAppId ==
    \E appId \in AppIds :
        LET s == Begin(S, Lookup("getInstancesByAppId", appId))
        IN  Install(Returned(s, getInstancesByAppId(s, appId)))

GetInstancesByVipAddress ==
    \E vipAddress \in VipAddresses :
        LET s == Begin(S, Lookup("getInstancesByVipAddress", vipAddress))
        IN  Install(Returned(s, getInstancesByVipAddress(s, vipAddress)))

\* A fetch starts while another is under way, not a third.
FetchRegistryAgain ==
    /\ Copies(requests, {"fetch"}) < 2
    /\ Install(fetchRegistry(Begin(S, Event("fetchRegistry", NoResponse, NoOp)), "user"))

NextLookups ==
    \/ FetchRegistryAgain
    \/ FetchResponseSmall
    \/ GetInstancesByAppId
    \/ GetInstancesByVipAddress

SpecLookups == InitCache /\ [][NextLookups]_vars

----------------------------------------------------------------------------
(* Properties.  `ev` names the handler that produced a state and `fx` lists *)
(* what that handler did, so what a handler does is a predicate on the      *)
(* state it leaves; what it changes is an action formula.                   *)

Calls(log, cb) == {i \in DOMAIN log : log[i].e = "callback" /\ log[i].a.cb = cb}

Emits(log, signal) == {i \in DOMAIN log : log[i].e = "emit" /\ log[i].a = signal}

Sends(log, kind) == {i \in DOMAIN log : log[i].e = "send" /\ log[i].a.kind = kind}

Lookups(log, kind) == {i \in DOMAIN log : log[i].e = "lookup" /\ log[i].a.kind = kind}

RetryTimers == BagCardinality(retryOrphans) + Len(reregisterTimeout)

RegistrationsOf(cb) ==
    Cardinality({i \in Sends(fx, "register") \cup Lookups(fx, "register") : fx[i].a.cb = cb})

RegisterFailed == ev.op = "registerResponse" /\ ev.status = NoResponse

RegisterRejected == ev.op = "registerResponse" /\ ev.status \notin {NoResponse, 204}

RegisterAccepted == ev.op = "registerResponse" /\ ev.status = 204

\* C1: a register() attempt that ends in a transport error rotates the ring
\* exactly once, schedules one re-register timeout that holds the same
\* callback, calls no callback and sends nothing; and while the registration
\* that start() began has failed k times in a row, the ring is the configured
\* one rotated k times and its callback has not been called.
C1_TransportErrorRotatesAndRetries ==
    /\ [](RegisterFailed =>
            /\ Count(fx, "rotate") = 1
            /\ Count(fx, "setTimeout") = 1
            /\ reregisterTimeout = <<ev.req.cb>>
            /\ Count(fx, "callback") = 0
            /\ Len(fx) = 2)
    /\ [](phase.start = "registering" =>
            /\ serviceUrl = Rotated(config.urls, failures)
            /\ doneCalls = 0)
    /\ [][RegisterFailed' =>
            /\ serviceUrl' = Rotated(serviceUrl, 1)
            /\ RetryTimers' = RetryTimers + 1
            /\ doneCalls' = doneCalls
            /\ heartbeat' = heartbeat /\ hbOrphans' = hbOrphans]_vars

\* C1, witness: the registration start() began has failed more often than the
\* ring is long, and waits for its next attempt.
C1_Witness ==
    /\ RegisterFailed
    /\ ev.req.cb = "done"
    /\ failures > Len(serviceUrl)
    /\ Len(serviceUrl) > 2
    /\ serviceUrl = Rotated(config.urls, 1)
    /\ reregisterTimeout = <<"done">>

\* C2: a register() attempt answered with a status other than 204 calls its
\* callback exactly once, with an error; it schedules no retry, does not
\* rotate the ring, starts no heartbeat timer and emits no 'registered'.
C2_RejectionFailsWithoutRetry ==
    /\ [](RegisterRejected =>
            /\ Cardinality(Calls(fx, ev.req.cb)) = 1
            /\ \A i \in Calls(fx, ev.req.cb) : fx[i].a.err = "status"
            /\ Count(fx, "setTimeout") = 0
            /\ Count(fx, "rotate") = 0
            /\ Count(fx, "startHeartbeats") = 0
            /\ Emits(fx, "registered") = {}
            /\ Sends(fx, "register") \cup Lookups(fx, "register") = {})
    /\ [][RegisterRejected' =>
            /\ serviceUrl' = serviceUrl
            /\ reregisterTimeout' = reregisterTimeout /\ retryOrphans' = retryOrphans
            /\ heartbeat' = heartbeat /\ hbOrphans' = hbOrphans
            /\ Copies(requests', {"register"}) = Copies(requests, {"register"}) - 1
            /\ Copies(lookups', {"register"}) = Copies(lookups, {"register"})]_vars

\* C2, witness: the registration start() began was rejected; nothing is left
\* of it and start() has reported the error.
C2_Witness ==
    /\ RegisterRejected
    /\ ev.req.cb = "done"
    /\ doneCalls = 1
    /\ ~heartbeat
    /\ RetryTimers = 0
    /\ Copies(requests, {"register"}) = 0

\* C3: a register() attempt answered with 204 emits 'registered', starts the
\* heartbeat timer and calls its callback with no error, in this order; no
\* other handler, and no other outcome of register(), starts the heartbeat
\* timer or emits 'registered'.
C3_OnlyAcceptedRegistrationStartsHeartbeats ==
    /\ RegisterAccepted =>
          /\ heartbeat
          /\ Len(fx) >= 3
          /\ fx[1] = [e |-> "emit", a |-> "registered"]
          /\ fx[2].e = "startHeartbeats"
          /\ fx[3] = [e |-> "callback", a |-> [cb |-> ev.req.cb, err |-> "null"]]
          /\ Count(fx, "startHeartbeats") = 1
          /\ Cardinality(Emits(fx, "registered")) = 1
          /\ Cardinality(Calls(fx, ev.req.cb)) = 1
    /\ ~RegisterAccepted =>
          /\ Count(fx, "startHeartbeats") = 0
          /\ Emits(fx, "registered") = {}

\* C3, witness: a re-registration that a heartbeat caused was accepted and the
\* heartbeat timer runs again.
C3_Witness ==
    /\ RegisterAccepted
    /\ ev.req.cb = "noop"
    /\ heartbeat
    /\ hbOrphans = 0

Heartbeat404 == ev.op = "renewResponse" /\ ev.status = 404

HeartbeatFailed == ev.op = "renewResponse" /\ ev.status \notin {200, 404}

\* The registration requests this handler sent for a register() that renew()
\* called for the reason `why`.
SentFor(why) == {i \in Sends(fx, "register") : fx[i].a.why = why}

\* The handler called register(noop) once, as its last call: the request is
\* sent (no auth collaborator) or waits for the token.
ReRegisters(why) ==
    /\ fx # << >>
    /\ fx[Len(fx)].e = IF config.oAuth2Enabled THEN "lookup" ELSE "send"
    /\ fx[Len(fx)].a.kind = "register"
    /\ fx[Len(fx)].a.cb = "noop"
    /\ fx[Len(fx)].a.why = why
    /\ RegistrationsOf("noop") = 1

HeartbeatTimerSet == heartbeat \/ hbOrphans > 0

RegistrationUnderWay ==
    Copies(lookups, {"register"}) + Copies(requests, {"register"}) > 0

\* No heartbeat timer, no registration waiting for its url or in flight, no
\* re-register timeout pending.
AtRest == ~HeartbeatTimerSet /\ ~RegistrationUnderWay /\ RetryTimers = 0

\* C6 as claimed (its safety half): the handler of the answer to a
\* registration that a failed heartbeat caused does not leave the client at
\* rest.
C6_NeverAtRestAfterHeartbeatFailure ==
    ev.op = "registerResponse" /\ ev.req.cb = "noop" => ~AtRest

\* C6 as amended: while stop() is not called, after a failed heartbeat (404,
\* another status, no response) the client eventually has a heartbeat timer
\* again or is at rest; and it comes to rest only by the handler of a
\* registration answered with a status other than 204: the re-registration is
\* retried after a transport error, not after a rejection.
C6_HealsUnlessRegistrationRejected ==
    /\ (Heartbeat404 \/ HeartbeatFailed) ~> (HeartbeatTimerSet \/ AtRest)
    /\ [][~AtRest /\ AtRest' => RegisterRejected']_vars

\* C6, witness: the registration that a failed heartbeat caused is accepted
\* and the heartbeat timer is set again.
C6_Witness ==
    /\ RegisterAccepted
    /\ ev.req.cb = "noop"
    /\ HeartbeatTimerSet

----------------------------------------------------------------------------
(* Properties of the registry cache.                                       *)

FetchFailed == ev.op = "fetchResponse" /\ ev.status # 200

FetchSucceeded == ev.op = "fetchResponse" /\ ev.status = 200

CacheIsEmpty == cache = EmptyCache

\* C7: a fetchRegistry() that fails (no response, or a status other than 200)
\* leaves the cache, the endpoint ring and every timer as they were, calls the
\* callback once with an error, emits nothing, and sends and schedules
\* nothing.
C7_FailedFetchLeavesCache ==
    /\ [](FetchFailed =>
            /\ Len(fx) = 1
            /\ Cardinality(Calls(fx, ev.req.cb)) = 1
            /\ \A i \in Calls(fx, ev.req.cb) : fx[i].a.err # "null"
            /\ Emits(fx, "registryUpdated") = {}
            /\ Count(fx, "rotate") = 0
            /\ Count(fx, "setTimeout") = 0
            /\ Count(fx, "send") = 0)
    /\ [][FetchFailed' =>
            /\ cache' = cache
            /\ serviceUrl' = serviceUrl
            /\ UNCHANGED <<reregisterTimeout, retryOrphans, waitTimer, registryFetch,
                           heartbeat, hbOrphans, lookups>>]_vars

\* C7, witness: a fetch has failed while the cache held two applications.
C7_Witness ==
    /\ FetchFailed
    /\ Cardinality(DOMAIN cache.app) = 2
    /\ Cardinality(Calls(fx, "user")) = 1

\* The index a payload describes, entry by entry.  An application is indexed
\* when its instances come as an array or its one instance is kept; its list
\* holds the instances that are kept; a key that several applications write
\* holds the list of the last of them.
Kept(cfg, instance) == cfg.filterUpInstances => instance.status = "UP"

Listed(registry) ==
    IF registry.null \/ ~registry.present THEN << >> ELSE registry.items

IndexOf(cfg, registry) ==
    LET apps == Listed(registry)
        ix == {k \in DOMAIN apps :
                  apps[k].instance.isArray \/ Kept(cfg, apps[k].instance.items[1])}
        Last(K) == CHOOSE k \in K : \A j \in K : j <= k
        list(k) == SelectSeq(apps[k].instance.items, LAMBDA i : Kept(cfg, i))
        appKey(k) == toUpperCase(apps[k].name)
        vipKey(k) == apps[k].instance.items[1].vipAddress
    IN  [app |-> [key \in {appKey(k) : k \in ix} |->
                     list(Last({k \in ix : appKey(k) = key}))],
         vip |-> [key \in {vipKey(k) : k \in ix} |->
                     list(Last({k \in ix : vipKey(k) = key}))]]

SuccessSignalled ==
    /\ Cardinality(Emits(fx, "registryUpdated")) = 1
    /\ Cardinality(Calls(fx, ev.req.cb)) = 1
    /\ \A i \in Calls(fx, ev.req.cb) :
           /\ fx[i].a.err = "null"
           /\ \A j \in Emits(fx, "registryUpdated") : j < i

\* C8 as claimed: after every fetch answered 200 the cache is the index of
\* that response's payload and nothing else, also for a payload that lists no
\* applications; 'registryUpdated' is emitted and then the callback is called
\* with no error.
C8_CacheIsIndexOfPayload ==
    FetchSucceeded => cache = IndexOf(config, ev.body) /\ SuccessSignalled

\* C8, what holds: a payload that has the `application` field replaces the
\* cache by its index; a payload that is null or has no `application` field
\* leaves the cache as it was; either way the success is signalled.
C8_CacheReplacedWhenApplicationsPresent ==
    /\ [](FetchSucceeded => SuccessSignalled)
    /\ [](FetchSucceeded /\ ev.body.present => cache = IndexOf(config, ev.body))
    /\ [][FetchSucceeded' /\ ~ev'.body.present => cache' = cache]_vars

\* C8, witness: a fetch answered 200 with a payload that has no `application`
\* field, and the cache still holds the entries of the fetch before.
C8_Witness ==
    /\ FetchSucceeded
    /\ ev.body = NoApplication
    /\ ~CacheIsEmpty
    /\ SuccessSignalled

\* A payload of one application with one instance, the instance a bare record
\* or a one-element array; and the same payload with the instance in the other
\* form.
OneInstancePayload(registry) ==
    /\ registry.present
    /\ Len(registry.items) = 1
    /\ Len(registry.items[1].instance.items) = 1

OtherForm(registry) ==
    [registry EXCEPT !.items[1].instance.isArray = ~@]

TheInstance(registry) == registry.items[1].instance.items[1]

AsRecord(registry) == ~registry.items[1].instance.isArray

SameLookups(c1, c2) ==
    /\ \A name \in AppNames :
           getInstancesByAppId([cache |-> c1], name) = getInstancesByAppId([cache |-> c2], name)
    /\ \A vip \in Vips :
           getInstancesByVipAddress([cache |-> c1], vip)
               = getInstancesByVipAddress([cache |-> c2], vip)

Elements(q) == {q[k] : k \in DOMAIN q}

CachedLists == {cache.app[k] : k \in DOMAIN cache.app} \cup {cache.vip[k] : k \in DOMAIN cache.vip}

\* C10: with filterUpInstances enabled no list of either mapping ever holds an
\* instance whose status is not UP; with it disabled, after a fetch whose
\* payload lists applications, every instance of the payload is in the list
\* under its application's upper-cased name.
C10_FilterKeepsOnlyUp ==
    /\ config.filterUpInstances =>
           \A q \in CachedLists : \A i \in Elements(q) : i.status = "UP"
    /\ ~config.filterUpInstances /\ FetchSucceeded /\ ev.body.present =>
           \A k \in DOMAIN ev.body.items :
               LET a == ev.body.items[k]
               IN  /\ toUpperCase(a.name) \in DOMAIN cache.app
                   /\ Elements(a.instance.items) \subseteq Elements(cache.app[toUpperCase(a.name)])

\* C10, witness: filtering is on, the payload listed an application with one
\* UP and one DOWN instance, and its list holds the UP one alone.
C10_Witness ==
    /\ config.filterUpInstances
    /\ FetchSucceeded /\ ev.body.present
    /\ \E k \in DOMAIN ev.body.items :
          LET a == ev.body.items[k]
          IN  /\ {i.status : i \in Elements(a.instance.items)} = {"UP", "DOWN"}
              /\ Len(a.instance.items) = 2
              /\ Len(cache.app[toUpperCase(a.name)]) = 1
              /\ cache.app[toUpperCase(a.name)][1].status = "UP"

PayloadInstances(registry) ==
    UNION {Elements(registry.items[k].instance.items) : k \in DOMAIN registry.items}

ByVip(v) == Elements(getInstancesByVipAddress(S, v).value)

\* Every application's instances advertise one VIP, and no two applications
\* advertise the same.
OneVipPerApplication(registry) ==
    /\ \A k \in DOMAIN registry.items :
           Cardinality({i.vipAddress : i \in Elements(registry.items[k].instance.items)}) = 1
    /\ \A k, j \in DOMAIN registry.items :
           k # j => registry.items[k].instance.items[1].vipAddress
                        # registry.items[j].instance.items[1].vipAddress

\* C11 as claimed: after a successful fetch every instance of the payload
\* that passes the status filter is returned by the lookup of its own VIP
\* address, and every instance the lookup of a VIP address returns
\* advertises that address.
C11_VipLookupFindsEveryInstance ==
    FetchSucceeded /\ ev.body.present =>
        /\ \A i \in PayloadInstances(ev.body) :
               Kept(config, i) => i \in ByVip(i.vipAddress)
        /\ \A v \in Vips : \A i \in ByVip(v) : i.vipAddress = v

\* C11, what holds: the same, for a payload in which every application's
\* instances advertise one VIP that no other application advertises.
C11_VipLookupWhenOneVipPerApplication ==
    FetchSucceeded /\ ev.body.present /\ OneVipPerApplication(ev.body) =>
        /\ \A i \in PayloadInstances(ev.body) :
               Kept(config, i) => i \in ByVip(i.vipAddress)
        /\ \A v \in Vips : \A i \in ByVip(v) : i.vipAddress = v

\* C11, witness: two applications of the payload advertise the same VIP, both
\* instances pass the filter, and the lookup of that VIP returns the instance
\* of one of them only.
C11_Witness ==
    /\ FetchSucceeded /\ ev.body.present
    /\ Len(ev.body.items) = 2
    /\ \E v \in Vips :
          /\ \A i \in PayloadInstances(ev.body) : i.vipAddress = v /\ Kept(config, i)
          /\ \E i \in PayloadInstances(ev.body) : i \notin ByVip(v)

IsLookup == ev.op \in {"getInstancesByAppId", "getInstancesByVipAddress"}

\* What the cache holds under a key, the empty list when it holds nothing.
Under(map, key) == IF key \in DOMAIN map THEN map[key] ELSE << >>

UpperCased(appId) ==
    IF appId \in {"foo", "FOO"} THEN "FOO"
    ELSE IF appId \in {"bar", "BAR"} THEN "BAR" ELSE appId

\* C12: a lookup with an empty or missing key throws and does nothing else;
\* with a key it returns the list cached under the key (the app id
\* upper-cased), the empty list when there is none; a lookup sends nothing
\* and changes neither the cache nor anything else of the client's state.
C12_LookupsReadTheCache ==
    /\ [](IsLookup =>
            /\ Len(fx) = 1
            /\ ev.body.key \in {"", MissingKey} => fx[1] = [e |-> "throw", a |-> "RangeError"]
            /\ ev.body.key \notin {"", MissingKey} =>
                   /\ fx[1].e = "return"
                   /\ ev.op = "getInstancesByAppId" =>
                          fx[1].a = Under(cache.app, UpperCased(ev.body.key))
                   /\ ev.op = "getInstancesByVipAddress" =>
                          fx[1].a = Under(cache.vip, ev.body.key))
    /\ [][IsLookup' =>
            UNCHANGED <<config, serviceUrl, heartbeat, hbOrphans, reregisterTimeout,
                        retryOrphans, registryFetch, waitTimer, lookups, requests,
                        cache, phase, failures, doneCalls, token>>]_vars

\* C12, witness: the application looked up "foo" and got the one instance that
\* is cached under "FOO".
C12_Witness ==
    /\ ev.op = "getInstancesByAppId"
    /\ ev.body.key = "foo"
    /\ Len(fx) = 1 /\ fx[1].e = "return" /\ Len(fx[1].a) = 1
    /\ "FOO" \in DOMAIN cache.app

RECURSIVE Times(_, _)
Times(s, k) == IF k = 0 THEN s ELSE Times(rotateCurrentServiceUrl(s), k - 1)

\* C13: the current url is the head of the ring; a handler that rotates once
\* moves the head to the tail, the others moving up by one; as many rotations
\* as the ring has urls restore the order, both when rotateCurrentServiceUrl
\* is applied that often to the ring of any state, and when the registration
\* of start() has failed that often in a row.
C13_RotationMovesHeadToTail ==
    /\ [](/\ currentServiceUrl(S) = Head(serviceUrl)
          /\ Times(S, Len(serviceUrl)).serviceUrl = serviceUrl
          /\ Len(serviceUrl) > 1 => rotateCurrentServiceUrl(S).serviceUrl # serviceUrl
          /\ phase.start = "registering" /\ failures = Len(serviceUrl)
                 => serviceUrl = config.urls)
    /\ [][Count(fx', "rotate") = 1 =>
            /\ Len(serviceUrl') = Len(serviceUrl)
            /\ serviceUrl'[Len(serviceUrl)] = serviceUrl[1]
            /\ \A i \in 1 .. Len(serviceUrl) - 1 : serviceUrl'[i] = serviceUrl[i + 1]]_vars

\* C13, witness: the registration of start() has just failed for the third
\* time on a ring of three urls, and the ring is as configured.
C13_Witness ==
    /\ RegisterFailed
    /\ Count(fx, "rotate") = 1
    /\ phase.start = "registering"
    /\ Len(serviceUrl) = 3
    /\ failures = 3
    /\ serviceUrl = config.urls

\* A handler in which DNS discovery failed: an operation was started with DNS
\* enabled and no region configured, or a TXT lookup called back with an error.
DnsFailed ==
    \/ /\ ev.op \in {"start", "retry", "tick", "fetchRegistry", "stop"}
       /\ config.useDns /\ ~config.ec2Region
    \/ ev.op = "dnsDone" /\ ev.body.outcome = "error"

ErrorCalls(log) == {i \in DOMAIN log : log[i].e = "callback" /\ log[i].a.err # "null"}

\* C14 as claimed: when DNS discovery fails, the operation that asked for the
\* endpoint sends no request (and does not go on to ask for a token), and its
\* caller's callback receives an error.
C14_DnsFailureReachesCaller ==
    DnsFailed =>
        /\ Count(fx, "send") = 0
        /\ Count(fx, "lookup") = 0
        /\ ErrorCalls(fx) # {}

\* C14, what the code does: the error of the DNS lookup is dropped.  No
\* callback is called; the operation goes on with the url as configured: it
\* asks for the token when there is an auth collaborator, and otherwise sends
\* its request to the current url, with the configured host.
C14_DnsFailureIsDropped ==
    DnsFailed =>
        /\ Count(fx, "callback") = 0
        /\ config.oAuth2Enabled =>
               /\ Count(fx, "send") = 0
               /\ \E i \in DOMAIN fx :
                      /\ fx[i].e = "lookup" /\ fx[i].a.stage = "token"
                      /\ fx[i].a.host = "configured" /\ fx[i].a.url = serviceUrl[1]
        /\ ~config.oAuth2Enabled =>
               /\ Count(fx, "send") = 1
               /\ \A i \in DOMAIN fx :
                      fx[i].e = "send" =>
                          fx[i].a.host = "configured" /\ fx[i].a.url = serviceUrl[1]

\* C14, witness: the second TXT lookup of a registration failed, and the
\* registration request went to the configured host.
C14_Witness ==
    /\ ev.op = "dnsDone" /\ ev.body.outcome = "error" /\ ev.body.stage = "dns2"
    /\ \E i \in Sends(fx, "register") : fx[i].a.host = "configured"
    /\ Count(fx, "callback") = 0

TokenCalledBack == ev.op = "lookupDone"

TokenFailed == TokenCalledBack /\ ev.body.outcome = TokenError

TokenAcquired == TokenCalledBack /\ ev.body.outcome \in Tokens

\* The Authorization headers of the requests the last handler sent.
Headers == {fx[i].a.auth : i \in {j \in DOMAIN fx : fx[j].e = "send"}}

HeaderOf(t) == IF t = "t1" THEN "Bearer t1" ELSE "Bearer t2"

\* C15 as claimed: when the token request has called back the call is sent;
\* after a failure it carries no Authorization header, whether or not a token
\* was acquired before; after a success it carries the new token.
C15_NoHeaderWhenTokenFails ==
    TokenCalledBack =>
        /\ Count(fx, "send") = 1
        /\ TokenFailed => Headers = {"none"}
        /\ TokenAcquired => Headers = {HeaderOf(ev.body.outcome)}

\* C15, what the code does: the call is sent either way.  After a success it
\* carries the new token, which is kept.  After a failure it carries the
\* token kept from the last success, and 'Bearer undefined' when there has
\* been none.  Without an auth collaborator no call carries a header.
C15_HeaderIsTheTokenKept ==
    /\ TokenCalledBack =>
           /\ Count(fx, "send") = 1
           /\ TokenAcquired => token = ev.body.outcome
           /\ token \in Tokens => Headers = {HeaderOf(token)}
           /\ token \notin Tokens => TokenFailed /\ Headers = {"Bearer undefined"}
    /\ ~config.oAuth2Enabled => Headers \subseteq {"none"} /\ token = EmptyToken

\* C15, witness: a token was acquired, the next token request failed, and the
\* call carries the earlier token.
C15_Witness ==
    /\ TokenFailed
    /\ token = "t1"
    /\ Headers = {"Bearer t1"}

\* Another: no token was ever acquired and the call carries 'Bearer undefined'.
C15_WitnessNoToken ==
    /\ TokenFailed
    /\ token = EmptyToken
    /\ Headers = {"Bearer undefined"}

Index(log, e) == {i \in DOMAIN log : log[i].e = e}

Stopped == ev.op = "stop"

\* The deregistration stop() issues: the request, or the wait for the token
\* that the request follows.
Deregistrations == Sends(fx, "deregister") \cup Lookups(fx, "deregister")

\* stop() clears what this.registryFetch, this.reregisterTimeout and
\* this.heartbeat refer to, then issues one deregistration; a request it sends
\* itself goes to the current url.
StopClearsThenDeregisters ==
    /\ Cardinality(Deregistrations) = 1
    /\ \A d \in Deregistrations :
           /\ \E i \in Index(fx, "clearInterval") : i < d
           /\ \E i \in Index(fx, "clearTimeout") : i < d
           /\ \E i \in Index(fx, "stopHeartbeats") : i < d
           /\ fx[d].e = "send" => fx[d].a.url = serviceUrl[1]
    /\ ~heartbeat /\ ~registryFetch /\ reregisterTimeout = << >>

\* C16 as claimed: stop() cancels the timers before it issues one
\* deregistration, and no re-register timeout that was pending when stop()
\* was called is left to fire.
C16_NoRetryLeftAfterStop ==
    Stopped => StopClearsThenDeregisters /\ RetryTimers = 0

\* C16, what holds: stop() cancels the timers its three fields refer to
\* before it issues one deregistration; a re-register timeout whose handle
\* was overwritten by a later one stays pending and fires after stop().
C16_StopClearsReferencedTimers ==
    /\ [](Stopped => StopClearsThenDeregisters)
    /\ [][Stopped' => retryOrphans' = retryOrphans /\ hbOrphans' = hbOrphans]_vars

\* C16, witness: stop() has been called and a re-register timeout is pending.
C16_Witness ==
    /\ Stopped
    /\ StopClearsThenDeregisters
    /\ RetryTimers = 1

\* C16, the retry runs: after stop(), a re-register timeout fires and the
\* registration it starts is accepted, which starts the heartbeat timer.
C16_WitnessRetryRuns ==
    /\ phase.stopped
    /\ RegisterAccepted
    /\ heartbeat

DeregisterAnswered == ev.op = "deregisterResponse"

StartedSignalled == Emits(fx, "started") # {}

ConfiguredVipCached == Len(Under(cache.vip, config.vipAddress)) > 0

\* The callback waitForRegistryUpdate passes to fetchRegistry has been called.
WaitFetchAnswered == ev.op = "fetchResponse" /\ ev.req.cb = "wait"

\* C18 as claimed: 'started' is emitted and the callback of start() is called
\* only in the handler of a fetch response that leaves an instance of the
\* configured VIP address in the cache, and only when the registration has
\* succeeded (the registry-fetch interval is set only after it has).
C18_StartedOnlyWhenRegisteredAndCached ==
    StartedSignalled \/ Calls(fx, "start") # {} =>
        /\ WaitFetchAnswered
        /\ ConfiguredVipCached
        /\ registryFetch

\* C18, what holds: the series ends, with 'started' and then the callback of
\* start(), in two handlers only: the one of a rejected registration, which
\* passes the error on, and the one of a fetch of waitForRegistryUpdate that
\* leaves an instance of the configured VIP address in the cache, the
\* registration having succeeded.  A fetch of waitForRegistryUpdate that
\* leaves none, also a failed one, sets the 2000 ms timeout, which fetches
\* again, and leaves the heartbeat timer and the registry-fetch interval.
C18_StartedWhenSeriesEnds ==
    /\ [](StartedSignalled \/ Calls(fx, "start") # {} =>
            /\ Cardinality(Emits(fx, "started")) = 1
            /\ Cardinality(Calls(fx, "start")) = 1
            /\ \A i \in Emits(fx, "started") : \A j \in Calls(fx, "start") : i < j
            /\ \/ /\ RegisterRejected /\ ev.req.cb = "done"
                  /\ \A j \in Calls(fx, "start") : fx[j].a.err = "status"
               \/ /\ WaitFetchAnswered /\ ConfiguredVipCached /\ registryFetch
                  /\ \A j \in Calls(fx, "start") : fx[j].a.err = "null")
    /\ [](Index(fx, "setInterval") # {} => RegisterAccepted /\ ev.req.cb = "done")
    /\ [][registryFetch' # registryFetch => Index(fx', "setInterval") # {}]_vars
    /\ [](WaitFetchAnswered /\ ~ConfiguredVipCached =>
            /\ ~StartedSignalled
            /\ waitTimer
            /\ Count(fx, "setTimeout") = 1)
    /\ [][WaitFetchAnswered' => UNCHANGED <<heartbeat, hbOrphans, registryFetch>>]_vars
    /\ [][ev'.op = "waitTimer" =>
            Cardinality({i \in Sends(fx', "fetch") : fx'[i].a.cb = "wait"}) = 1]_vars

\* C18, witness: the registration of start() was rejected, and 'started' is
\* emitted while the cache is empty and no timer is set.
C18_Witness ==
    /\ RegisterRejected
    /\ StartedSignalled
    /\ CacheIsEmpty
    /\ ~heartbeat /\ ~registryFetch

\* Another: a fetch of waitForRegistryUpdate failed while the heartbeat timer
\* and the registry-fetch interval were set, and the timeout is set again.
C18_WitnessRefetch ==
    /\ WaitFetchAnswered
    /\ ev.status = NoResponse
    /\ waitTimer /\ heartbeat /\ registryFetch
    /\ phase.start # "started"

\* The complete indexes of the responses the registry answers with.
ResponseIndexes(cfg) == {IndexOf(cfg, r) : r \in {b \in SmallRegistries : b.present}}

FetchesUnderWay == Copies(requests, {"fetch"})

\* C19: the cache is the empty cache of the constructor or the complete index
\* of one response, both mappings of the same one; it changes only in the
\* handler of a response answered 200, to the index of that response, whatever
\* other fetches are under way.
C19_CacheIsIndexOfOneResponse ==
    /\ [](cache = EmptyCache \/ cache \in ResponseIndexes(config))
    /\ [][cache' # cache =>
            /\ FetchSucceeded' /\ ev'.body.present
            /\ cache' = IndexOf(config, ev'.body)]_vars

\* C19, witness: two fetches of the interval were under way with another; one
\* has been answered with one application and the cache, which held another
\* application, is the index of that response.
C19_Witness ==
    /\ FetchSucceeded /\ ev.body.present
    /\ FetchesUnderWay = 2
    /\ DOMAIN cache.app = {"FOO"}
    /\ cache = IndexOf(config, ev.body)

\* q is r read from its k+1-th entry on and around.
IsRotation(q, r) ==
    /\ Len(q) = Len(r)
    /\ \E k \in 0 .. Len(r) - 1 :
          \A i \in 1 .. Len(r) : q[i] = r[((i - 1 + k) % Len(r)) + 1]

HeartbeatOtherFailure == ev.op = "renewResponse" /\ ev.status \notin {200, 404}

\* C20: the ring is never empty and always a rotation of the list the
\* constructor validated; only the handler of a registration that got no
\* response and the handler of a heartbeat that failed other than by a 404
\* change it.
C20_RingIsRotationOfConfigured ==
    /\ [](Len(serviceUrl) > 0 /\ IsRotation(serviceUrl, config.urls))
    /\ [][serviceUrl' # serviceUrl => RegisterFailed' \/ HeartbeatOtherFailure']_vars
    /\ [][config' = config]_vars

\* C20, witness: on a ring of three urls rotated twice, the DNS lookup has
\* called back and the request goes to the host it resolved.
C20_Witness ==
    /\ ev.op = "dnsDone" /\ ev.body.outcome = "ok"
    /\ \E i \in DOMAIN fx : fx[i].e = "send" /\ fx[i].a.host = "resolved"
    /\ Len(serviceUrl) = 3
    /\ serviceUrl = <<config.urls[3], config.urls[1], config.urls[2]>>

RegisterAnsweredFor(cb) ==
    ev.op = "registerResponse" /\ ev.status # NoResponse /\ ev.req.cb = cb

\* C21: while stop() is not called and the registry does not leave every
\* attempt unanswered, the callback start() passed to register() is called in
\* the end, and over the retries it is called once: by the handler of the
\* response, with no error for 204 and with an error for another status.  No
\* handler of a transport error calls a callback; every handler of a response
\* calls the callback of its registration once.
C21_RegisterCallsBackOnceInTheEnd ==
    /\ (phase.start = "registering") ~> (doneCalls = 1)
    /\ [](doneCalls <= 1)
    /\ [][doneCalls' # doneCalls => RegisterAnsweredFor("done")']_vars
    /\ [](RegisterFailed => Count(fx, "callback") = 0)
    /\ [](ev.op = "registerResponse" /\ ev.status # NoResponse =>
            /\ Cardinality(Calls(fx, ev.req.cb)) = 1
            /\ \A i \in Calls(fx, ev.req.cb) :
                   (fx[i].a.err = "null") <=> (ev.status = 204))

\* C21, witness: the registration of start() got no response, was tried again
\* at the next url and accepted, and its callback has been called once.
C21_Witness ==
    /\ RegisterAnsweredFor("done")
    /\ ev.status = 204
    /\ doneCalls = 1
    /\ Len(serviceUrl) = 2
    /\ serviceUrl # config.urls

\* Heartbeat interval timers that are set: the one this.heartbeat refers to
\* and those it referred to before it was overwritten.
HeartbeatTimers == (IF heartbeat THEN 1 ELSE 0) + hbOrphans

\* The last thing the handler did to the heartbeat timer was stopHeartbeats().
StoppedHeartbeats ==
    /\ Index(fx, "stopHeartbeats") # {}
    /\ \A i \in Index(fx, "startHeartbeats") : \E j \in Index(fx, "stopHeartbeats") : i < j

\* C22 as claimed: at most one heartbeat timer is set, and a handler that
\* ends with stopHeartbeats() leaves none.
C22_AtMostOneHeartbeatTimer ==
    /\ HeartbeatTimers <= 1
    /\ StoppedHeartbeats => HeartbeatTimers = 0

\* C22, what holds: this.heartbeat refers to at most one timer and
\* stopHeartbeats() clears that one; a timer is left set and unreferenced
\* only by the handler of an accepted registration that finds the heartbeat
\* timer already set, and no handler clears such a timer.
C22_OneReferencedHeartbeatTimer ==
    /\ [](StoppedHeartbeats => ~heartbeat)
    /\ [][hbOrphans' >= hbOrphans]_vars
    /\ [][hbOrphans' # hbOrphans =>
            RegisterAccepted' /\ heartbeat /\ hbOrphans' = hbOrphans + 1]_vars

\* C22, witness: two overlapping heartbeats were answered 404, both
\* re-registrations were accepted, and two heartbeat timers are set.
C22_Witness ==
    /\ RegisterAccepted
    /\ ev.req.cb = "noop"
    /\ heartbeat
    /\ hbOrphans = 1
    /\ ~phase.stopped

SomethingUnderWay ==
    \/ heartbeat \/ hbOrphans > 0
    \/ RetryTimers > 0
    \/ Copies(lookups, {"register", "renew"}) + Copies(requests, {"register", "renew"}) > 0

\* The handler started a heartbeat timer, scheduled a registration retry, or
\* sent (or went to get a token for) a register or heartbeat request.
LifecycleActivity ==
    \/ Index(fx, "startHeartbeats") # {}
    \/ Index(fx, "setTimeout") # {}
    \/ Sends(fx, "register") \cup Sends(fx, "renew") # {}
    \/ Lookups(fx, "register") \cup Lookups(fx, "renew") # {}

\* C23 as claimed: once stop() has been called no handler starts a heartbeat
\* timer, schedules a registration retry or sends a register or heartbeat
\* request.
C23_NothingAfterStop ==
    phase.stopped => ~LifecycleActivity

\* C23, what holds: stop() itself does none of these, and a stopped client
\* with no heartbeat timer, no retry timeout and no register or heartbeat
\* request under way does none of them ever after; they come only from the
\* handlers of what was under way when stop() was called.
C23_QuietAfterStopWhenNothingUnderWay ==
    /\ [](Stopped => ~LifecycleActivity)
    /\ [][phase.stopped /\ ~SomethingUnderWay =>
            ~SomethingUnderWay' /\ ~LifecycleActivity']_vars
    /\ [][phase.stopped => phase'.stopped]_vars

\* C23, witness: a registration was in flight when stop() was called; it got
\* no response, and after stop() its handler has rotated the ring and
\* scheduled the retry.
C23_Witness ==
    /\ phase.stopped
    /\ RegisterFailed
    /\ Index(fx, "setTimeout") # {}
    /\ reregisterTimeout # << >>

\* Another: a heartbeat was in flight when stop() was called; it was answered
\* 404 and its handler has sent a registration.
C23_WitnessHeartbeat ==
    /\ phase.stopped
    /\ Heartbeat404
    /\ ~config.oAuth2Enabled
    /\ Sends(fx, "register") # {}

====
